---- MODULE Spec2Model ----
(***************************************************************************)
(* Iterable expansion of a pipeline graph: nipype/pipeline/utils.py.       *)
(*                                                                         *)
(* The heap is explicit.  A node object is a natural number (its address); *)
(* `nodes` maps the node objects of graph_in to their fields.  An edge is  *)
(* a pair of node objects and `edges` maps it to its `connect` payload: a  *)
(* list object (field ref, its address) and the list's value (field val).  *)
(* Strings are sequences of one-character strings.                         *)
(***************************************************************************)
EXTENDS Naturals, Integers, Sequences, FiniteSets, TLC

VARIABLES
    pc,         \* position in _generate_expanded_graph / walk driver
    nodes,      \* graph_in's node objects -> their fields
    edges,      \* graph_in's edges -> their connect payload
    nextNode,   \* next fresh node address (deepcopy allocates)
    nextObj,    \* next fresh payload address (deepcopy allocates)
    passes,     \* number of _merge_graphs calls of the current call
    input,      \* graph_in as it was when the current call began
    last,       \* locals of the latest _merge_graphs call
    lineage,    \* per node object: the <<pass, copy index>> it descends from
    prov,       \* per node object: the input node it is (a copy of), and the
                \* driving input nodes and assignments it was copied for
    wchildren,  \* walk: argument children
    wusename,   \* walk: argument usename
    wresult     \* walk: list of the assignments yielded

vars == <<pc, passes, nodes, edges, nextNode, nextObj, input, last, lineage,
          prov, wchildren, wusename, wresult>>

graphVars ==
    <<nodes, edges, nextNode, nextObj, passes, input, last, lineage, prov>>
walkVars == <<wchildren, wusename, wresult>>

----------------------------------------------------------------------------
(* Bounds of the model *)

MaxNodes == 3       \* nodes of an input graph with plain identities
MaxIterNodes == 2   \* nodes of an input graph that carry iterables
MaxSmall == 2       \* nodes of an input graph of InitForms and InitIds
MaxPairs == 2       \* pairs in walk's argument
MaxVals == 2        \* values a walk value-producer yields

----------------------------------------------------------------------------
(* Strings, dicts *)

EmptyDict == [k \in {} |-> 0]

\* The element of a singleton set.  Once({F(x) : x \in {e}}) is F(e) with e
\* evaluated a single time, also where TLC keeps no value of a LET.
Once(S) == CHOOSE x \in S : TRUE

DictSet(d, key, val) ==
    [k \in (DOMAIN d) \cup {key} |-> IF k = key THEN val ELSE d[k]]

DigitChars == <<"0", "1", "2", "3", "4", "5", "6", "7", "8", "9">>

RECURSIVE Str(_)
Str(i) == IF i < 10 THEN <<DigitChars[i + 1]>>
          ELSE Str(i \div 10) \o <<DigitChars[(i % 10) + 1]>>

\* the parameter names in use, in sorted() order
NameOrder == <<"a", "b">>
Names == {NameOrder[i] : i \in DOMAIN NameOrder}

SortedKeys(d) ==
    SelectSeq(NameOrder, LAMBDA k : k \in DOMAIN d)

Sep == "/"

_get_valid_pathstr(pathstr) ==
    LET kept == SelectSeq(pathstr, LAMBDA c : c \notin {" ", "[", "]"})
    IN [i \in DOMAIN kept |->
            IF kept[i] = Sep THEN "_"
            ELSE IF kept[i] = "," THEN "." ELSE kept[i]]

----------------------------------------------------------------------------
(* walk *)

Reverse(s) == [i \in DOMAIN s |-> s[Len(s) + 1 - i]]

\* One run of the generator: the assignments yielded, in order, and the
\* shared dict `path` as the run leaves it.
RECURSIVE WalkRun(_, _, _, _)
RECURSIVE WalkLoop(_, _, _, _, _, _, _)

WalkLoop(vals, j, key, tail, level, path, usename) ==
    IF j > Len(vals) THEN [out |-> <<>>, path |-> path]
    ELSE \* path[key] = child, then the inner generator, then the next child
         Once({Once({[out |-> inner.out \o rest.out, path |-> rest.path] :
                        rest \in {WalkLoop(vals, j + 1, key, tail, level,
                                           inner.path, usename)}}) :
                  inner \in {WalkRun(tail, level + 1,
                                     DictSet(path, key, vals[j]), usename)}})

WalkRun(children, level, path, usename) ==
    IF children = <<>> THEN [out |-> <<path>>, path |-> path]
    ELSE LET head == Head(children)
             key == IF usename THEN head[1] ELSE level
         IN WalkLoop(head[2], 1, key, Tail(children), level, path, usename)

\* walk with the last pair in the outermost loop
walkLastSlowest(children, usename) ==
    WalkRun(Reverse(children), 0, EmptyDict, usename).out

\* walk that yields the path once when the loops yield nothing
walkAtLeastOnce(children, usename) ==
    LET run == WalkRun(children, 0, EmptyDict, usename)
    IN IF run.out = <<>> THEN <<run.path>> ELSE run.out

walk(children, usename) == WalkRun(children, 0, EmptyDict, usename).out

----------------------------------------------------------------------------
(* Graph primitives (networkx DiGraph) *)

Succ(E, n) == {e[2] : e \in {x \in E : x[1] = n}}
Pred(E, n) == {e[1] : e \in {x \in E : x[2] = n}}

\* nx.dfs_preorder(G, node): the nodes reachable from node, node included
RECURSIVE ReachFrom(_, _, _)
ReachFrom(E, front, seen) ==
    IF front = {} THEN seen
    ELSE Once({ReachFrom(E, nxt, seen \cup nxt) :
                  nxt \in {{e[2] : e \in {x \in E : x[1] \in front}} \ seen}})

dfs_preorder(E, n) == ReachFrom(E, {n}, {n})

\* nx.topological_sort(G) succeeds exactly on the acyclic graphs
RECURSIVE StripSources(_, _)
StripSources(N, E) ==
    IF N = {} THEN TRUE
    ELSE Once({Once({IF srcs = {} THEN FALSE
                     ELSE StripSources(N \ srcs, inside) :
                        srcs \in {N \ {e[2] : e \in inside}}}) :
                  inside \in {{e \in E : e[1] \in N /\ e[2] \in N}}})

IsAcyclic(N, E) == StripSources(N, E)

\* a topological sort that succeeds on every graph
TopologicalSortNeverFails(N, E) == FALSE

\* nodes = nx.topological_sort(graph_in); nodes.reverse() ends in an error
TopologicalSortFails(N, E) == ~IsAcyclic(N, E)

Rank(x, S) == Cardinality({y \in S : y < x})
Nth(k, S) == CHOOSE x \in S : Rank(x, S) = k

----------------------------------------------------------------------------
(* _generate_expanded_graph: normalisation of node.iterables *)

\* node.iterables as the caller may give it: a dict (field dict), or one
\* (name, values) tuple or a list of such tuples (field pairs)
DictIterables(d) == [kind |-> "dict", pairs |-> <<>>, dict |-> d]
TupleIterables(name, vals) ==
    [kind |-> "tuple", pairs |-> <<<<name, vals>>>>, dict |-> EmptyDict]
ListIterables(l) == [kind |-> "list", pairs |-> l, dict |-> EmptyDict]

\* dict(map(lambda(x): (x[0], lambda: x[1]), node.iterables))
RECURSIVE ToDict(_, _)
ToDict(l, d) ==
    IF l = <<>> THEN d
    ELSE ToDict(Tail(l), DictSet(d, Head(l)[1], Head(l)[2]))

NormalizeIterables(it) ==
    IF it.kind = "dict" THEN it
    ELSE DictIterables(ToDict(it.pairs, EmptyDict))

HasIterables(nd) == DOMAIN nd.iterables.dict # {}

\* inodes that takes every node
inodesAll(N) == DOMAIN N

\* inodes that takes the nodes with more than one iterable only
inodesSeveral(N) ==
    {n \in DOMAIN N : Cardinality(DOMAIN N[n].iterables.dict) > 1}

\* inodes: the nodes with len(node.iterables.keys()) > 0
inodes(N) == {n \in DOMAIN N : HasIterables(N[n])}

\* a selection that takes any iterable-carrying node
AnyInodes(N, E) == inodes(N)

\* inodes[0] over the reversed topological orders: an iterable-carrying
\* node comes first exactly when none of its proper descendants carries
\* iterables
FirstInodes(N, E) ==
    {n \in inodes(N) : (dfs_preorder(E, n) \ {n}) \cap inodes(N) = {}}

\* the tagging without node.iterables = {}
TagSelectedKeep(nd) == [nd EXCEPT !._id = @ \o <<"I">>]

\* node.iterables = {}; node._id += 'I'
TagSelected(nd) ==
    [nd EXCEPT !.iterables = DictIterables(EmptyDict),
               !._id = @ \o <<"I">>]

\* iterables.items(): the pairs of the dict in one of its iteration orders
ItemsOrders(d) ==
    {s \in UNION {[1..Cardinality(DOMAIN d) -> {<<k, d[k]>> : k \in DOMAIN d}]} :
        \A i, j \in DOMAIN s : i # j => s[i] # s[j]}

----------------------------------------------------------------------------
(* _merge_graphs *)

\* graph_in.subgraph(subnodes): the edges with both ends among the nodes
SubgraphEdges(E, sub) == {e \in E : e[1] \in sub /\ e[2] \in sub}

\* ids.index(n._id) over supergraph.nodes(): per identity, the first node of
\* the supergraph that carries it; the order of supergraph.nodes() is the
\* dict's, so with equal identities any of them may come first
RECURSIVE RepChoices(_, _)
RepChoices(ks, N) ==
    IF ks = {} THEN {EmptyDict}
    ELSE UNION {{DictSet(f, k, m) :
                    f \in RepChoices(ks \ {k}, N),
                    m \in {r \in DOMAIN N : N[r]._id = k}} :
                k \in {CHOOSE x \in ks : TRUE}}

\* the sources of the in-edges of m that are not part of the subgraph
ExtSources(E, sub, m) == {u \in Pred(E, m) : u \notin sub}

\* paramstr: '_'.join((paramstr, key, _get_valid_pathstr(str(val)))) over
\* sorted(params.items())
ParamStr(params) ==
    LET keys == SortedKeys(params)
        RECURSIVE Join(_, _)
        Join(j, acc) ==
            IF j > Len(keys) THEN acc
            ELSE Join(j + 1, acc \o <<"_">> \o <<keys[j]>> \o <<"_">>
                                 \o _get_valid_pathstr(Str(params[keys[j]])))
    IN Join(1, <<>>)

\* set_input(key, val) for every pair of params
SetInputs(inputs, params) ==
    [k \in (DOMAIN inputs) \cup (DOMAIN params) |->
        IF k \in DOMAIN params THEN params[k] ELSE inputs[k]]

\* n.parameterization after the update by [paramstr]
Prepend(paramstr, parameterization) ==
    IF parameterization # <<>> THEN <<paramstr>> \o parameterization
    ELSE <<paramstr>>

\* the deep copy of node nd for copy number i (Python's i is i - 1), once the
\* loop body is through with it
CopyNode(nd, i, params, isTarget) ==
    [nd EXCEPT !.inputs = IF isTarget THEN SetInputs(@, params) ELSE @,
               !.parameterization = Prepend(ParamStr(params), @),
               !._id = @ \o Str(i - 1)]

\* a merge that removes no node
RemoveNothing(all, sub) == all

\* supergraph.remove_nodes_from(nodes): the nodes that stay
RemoveNodes(all, sub) == all \ sub

\* deepcopy(subgraph): address of the copy of node n in copy number i
CopyRef(base, i, n, sub) == base + (i - 1) * Cardinality(sub) + Rank(n, sub)

\* the copy number and the subgraph node of the copy at address r
CopyIndex(base, r, sub) == ((r - base) \div Cardinality(sub)) + 1
CopyOrig(base, r, sub) == Nth((r - base) % Cardinality(sub), sub)

\* copied edges that all end in the first copy
CopyEdgeIntoFirst(base, i, e, sub) ==
    {<<CopyRef(base, i, e[1], sub), CopyRef(base, 1, e[2], sub)>>}

\* copied edges that run both ways
CopyEdgeBothWays(base, i, e, sub) ==
    {<<CopyRef(base, i, e[1], sub), CopyRef(base, i, e[2], sub)>>,
     <<CopyRef(base, i, e[2], sub), CopyRef(base, i, e[1], sub)>>}

\* Gc.edges(): the copy's edges run between the copies of the ends
CopyEdge(base, i, e, sub) ==
    {<<CopyRef(base, i, e[1], sub), CopyRef(base, i, e[2], sub)>>}

\* the payload of the edge info[0] -> node added from edgeinfo
ReattachedPayload(Ed, u, m) == Ed[<<u, m>>]

\* deepcopy(subgraph): the copy of a connect list for copy number i; lists
\* that are one object in the subgraph are one object in the copy
DeepCopyPayload(d, no, i, subObjs) ==
    [ref |-> no + (i - 1) * Cardinality(subObjs) + Rank(d.ref, subObjs),
     val |-> d.val]

_merge_graphs(N, Ed, sub, assigns, rep, tgt, nn, no) ==
    LET E == DOMAIN Ed
        keep == RemoveNodes(DOMAIN N, sub)
        E0 == {e \in E : e[1] \in keep /\ e[2] \in keep}
        subE == SubgraphEdges(E, sub)
        subObjs == {Ed[e].ref : e \in subE}
        k == Cardinality(sub)
        cnt == Len(assigns)
        newRefs == nn .. (nn + cnt * k - 1)
        idxOf(r) == CopyIndex(nn, r, sub)
        origOf(r) == CopyOrig(nn, r, sub)
        \* supergraph.add_edges_from(Gc.edges(data=True))
        intE == UNION {CopyEdge(nn, i, e, sub) : i \in 1..cnt, e \in subE}
        \* supergraph.add_edges_from([(info[0], node, info[1])])
        extE == UNION {{<<u, CopyRef(nn, i, n, sub)>> :
                           u \in ExtSources(E, sub, rep[N[n]._id])} :
                       i \in 1..cnt, n \in sub}
        \* the subgraph edge that the edge ce of Gc.edges(data=True) copies
        srcOf(ce) == CHOOSE e \in subE :
                        ce \in CopyEdge(nn, idxOf(ce[1]), e, sub)
    IN [nodes |->
            [r \in keep \cup newRefs |->
                IF r \in keep THEN N[r]
                ELSE CopyNode(N[origOf(r)], idxOf(r), assigns[idxOf(r)],
                              origOf(r) = tgt[idxOf(r)])],
        edges |->
            [e \in E0 \cup intE \cup extE |->
                IF e[2] \in keep THEN Ed[e]
                ELSE IF e[1] \in newRefs
                THEN DeepCopyPayload(Ed[srcOf(e)], no, idxOf(e[1]), subObjs)
                ELSE ReattachedPayload(Ed, e[1], rep[N[origOf(e[2])]._id])],
        copy |-> [i \in 1..cnt |-> [n \in sub |-> CopyRef(nn, i, n, sub)]],
        nextNode |-> nn + cnt * k,
        nextObj |-> no + cnt * Cardinality(subObjs)]

----------------------------------------------------------------------------
(* Input graphs *)

Letters == <<"n", "m", "p", "q", "r", "s">>
PlainId(k) == <<Letters[k]>>

\* identities that other identities grow into
IdPool == {<<"n">>, <<"n", "I">>, <<"n", "I", "0">>, <<"m">>}

NoIterables == DictIterables(EmptyDict)

\* node.iterables of the plain graphs: one (name, values) tuple
PlainForms ==
    {TupleIterables("a", <<1, 2>>), TupleIterables("b", <<3, 4>>)}

\* every form of node.iterables: also a list of tuples, a non-empty dict,
\* and a tuple with no values
IterForms ==
    PlainForms \cup
    {ListIterables(<< <<"a", <<1, 2>>>>, <<"b", <<3, 4>>>> >>),
     DictIterables([k \in {"b"} |-> <<3>>]),
     TupleIterables("a", <<>>)}

\* a list of tuples one of which has no values
EmptyListForms == {ListIterables(<< <<"a", <<1, 2>>>>, <<"b", <<>>>> >>)}

IdIterForms == {TupleIterables("a", <<1, 2>>)}

\* a new node as the workflow builds it
NewNode(id, it) ==
    [_id |-> id, iterables |-> it, parameterization |-> <<>>,
     inputs |-> EmptyDict]

\* the connect payload of the input edge e: its own list object
NewPayload(e, E, n) ==
    [ref |-> 1 + Cardinality({x \in E : x[1] * (n + 1) + x[2]
                                        < e[1] * (n + 1) + e[2]}),
     val |-> e]

ForwardPairs(n) == {e \in (1..n) \X (1..n) : e[1] < e[2]}

NoPass ==
    [merged |-> FALSE, sel |-> 0, sub |-> {}, items |-> <<>>,
     assigns |-> <<>>, copy |-> <<>>, nodes |-> EmptyDict,
     edges |-> EmptyDict]

InitGraph(n, ids, its, E) ==
    /\ nodes = [k \in 1..n |-> NewNode(ids[k], its[k])]
    /\ edges = [e \in E |-> NewPayload(e, E, n)]
    /\ nextNode = n + 1
    /\ nextObj = Cardinality(E) + 1
    /\ passes = 0
    /\ input = [nodes |-> nodes, edges |-> edges]
    /\ last = NoPass
    /\ lineage = [k \in 1..n |-> <<>>]
    /\ prov = [k \in 1..n |-> [of |-> k, by |-> <<>>]]
    /\ pc = "start"
    /\ wchildren = <<>>
    /\ wusename = TRUE
    /\ wresult = <<>>

\* acyclic graphs of up to MaxNodes nodes with plain identities, of which up
\* to MaxIterNodes carry a tuple as iterables
InitPlain ==
    \E n \in 1..MaxNodes :
    \E E \in SUBSET ForwardPairs(n) :
    \E its \in [1..n -> PlainForms \cup {NoIterables}] :
        /\ Cardinality({k \in 1..n : its[k] # NoIterables}) <= MaxIterNodes
        /\ InitGraph(n, [k \in 1..n |-> PlainId(k)], its, E)

\* acyclic graphs of up to MaxSmall nodes with plain identities and
\* iterables of every form
InitForms ==
    \E n \in 1..MaxSmall :
    \E E \in SUBSET ForwardPairs(n) :
    \E its \in [1..n -> IterForms \cup {NoIterables}] :
        InitGraph(n, [k \in 1..n |-> PlainId(k)], its, E)

\* acyclic graphs of up to MaxSmall nodes with pairwise distinct identities
\* from IdPool
InitIds ==
    \E n \in 1..MaxSmall :
    \E E \in SUBSET ForwardPairs(n) :
    \E its \in [1..n -> IdIterForms \cup {NoIterables}] :
    \E ids \in [1..n -> IdPool] :
        /\ \A i, j \in 1..n : i # j => ids[i] # ids[j]
        /\ InitGraph(n, ids, its, E)

\* acyclic graphs of up to MaxSmall nodes with plain identities and, on some
\* node, iterables of which one has no values
InitEmptyList ==
    \E n \in 1..MaxSmall :
    \E E \in SUBSET ForwardPairs(n) :
    \E its \in [1..n -> EmptyListForms \cup {NoIterables}] :
        /\ \E k \in 1..n : its[k] # NoIterables
        /\ InitGraph(n, [k \in 1..n |-> PlainId(k)], its, E)

Init == InitPlain \/ InitForms \/ InitIds \/ InitEmptyList

----------------------------------------------------------------------------
(* _generate_expanded_graph *)

\* lines 252-258: tuples and lists of node.iterables become dicts
Normalize ==
    /\ pc = "start"
    /\ nodes' = [r \in DOMAIN nodes |->
                    [nodes[r] EXCEPT !.iterables = NormalizeIterables(@)]]
    /\ pc' = "loop"
    /\ UNCHANGED <<edges, nextNode, nextObj, passes, input, last, lineage,
                   prov>>
    /\ UNCHANGED walkVars

\* one pass of the while loop that finds inodes non-empty; the locals N1
\* (the graph with the selected node tagged), sub, assigns and m (the merged
\* graph) are each computed once
Pass ==
    /\ pc = "loop"
    /\ passes <= MaxIterNodes
    /\ ~TopologicalSortFails(DOMAIN nodes, DOMAIN edges)
    /\ \E sel \in FirstInodes(nodes, DOMAIN edges) :
       \E items \in ItemsOrders(nodes[sel].iterables.dict) :
       \E N1 \in {[nodes EXCEPT ![sel] = TagSelected(@)]} :
       \E sub \in {dfs_preorder(DOMAIN edges, sel)} :
       \E assigns \in {walk(items, TRUE)} :
       \E rep \in RepChoices({N1[n]._id : n \in sub}, N1) :
       \E tgt \in [1..Len(assigns) -> {n \in sub : N1[n]._id = N1[sel]._id}] :
       \E m \in {_merge_graphs(N1, edges, sub, assigns, rep, tgt,
                               nextNode, nextObj)} :
        /\ nodes' = m.nodes
        /\ edges' = m.edges
        /\ nextNode' = m.nextNode
        /\ nextObj' = m.nextObj
        /\ passes' = passes + 1
        /\ last' = [merged |-> TRUE, sel |-> sel, sub |-> sub,
                    items |-> items, assigns |-> assigns,
                    copy |-> m.copy, nodes |-> nodes, edges |-> edges]
        /\ lineage' =
             [r \in DOMAIN m.nodes |->
                 IF r \in DOMAIN nodes THEN lineage[r]
                 ELSE Append(lineage[CopyOrig(nextNode, r, sub)],
                             <<passes + 1, CopyIndex(nextNode, r, sub)>>)]
        /\ prov' =
             [r \in DOMAIN m.nodes |->
                 IF r \in DOMAIN nodes THEN prov[r]
                 ELSE [prov[CopyOrig(nextNode, r, sub)] EXCEPT
                          !.by = Append(@,
                              [node |-> prov[sel].of,
                               params |-> assigns[CopyIndex(nextNode, r, sub)]])]]
    /\ pc' = "loop"
    /\ UNCHANGED input
    /\ UNCHANGED walkVars

\* the pass that finds inodes empty: moreiterables = False, return graph_in
Finish ==
    /\ pc = "loop"
    /\ ~TopologicalSortFails(DOMAIN nodes, DOMAIN edges)
    /\ inodes(nodes) = {}
    /\ pc' = "done"
    /\ UNCHANGED graphVars
    /\ UNCHANGED walkVars

\* the caller hands the returned graph to _generate_expanded_graph again
Rerun ==
    /\ pc = "done"
    /\ pc' = "start"
    /\ passes' = 0
    /\ input' = [nodes |-> nodes, edges |-> edges]
    /\ prov' = [r \in DOMAIN nodes |-> [of |-> r, by |-> <<>>]]
    /\ UNCHANGED <<nodes, edges, nextNode, nextObj, last, lineage>>
    /\ UNCHANGED walkVars

Next == Normalize \/ Pass \/ Finish \/ Rerun

Spec == Init /\ [][Next]_vars

FairSpec == Spec /\ WF_vars(Normalize \/ Pass \/ Finish)

----------------------------------------------------------------------------
(* Input graphs with a cycle *)

AllPairs(n) == (1..n) \X (1..n)

\* graphs of up to MaxSmall nodes with a cycle (self-loops included)
InitCyclic ==
    \E n \in 1..MaxSmall :
    \E E \in SUBSET AllPairs(n) :
    \E its \in [1..n -> IdIterForms \cup {NoIterables}] :
        /\ ~IsAcyclic(1..n, E)
        /\ InitGraph(n, [k \in 1..n |-> PlainId(k)], its, E)

\* nx.topological_sort(graph_in) finds the cycle: on a graph with a cycle
\* line 260 raises, or returns None and nodes.reverse() raises
Fail ==
    /\ pc = "loop"
    /\ TopologicalSortFails(DOMAIN nodes, DOMAIN edges)
    /\ pc' = "failed"
    /\ UNCHANGED graphVars
    /\ UNCHANGED walkVars

NextAny == Normalize \/ Pass \/ Finish \/ Rerun \/ Fail

SpecAny == (Init \/ InitCyclic) /\ [][NextAny]_vars

----------------------------------------------------------------------------
(* walk on its own: every argument within the bounds *)

WalkNames == {"a", "b", "c"}
WalkValues == {1, 2}

SeqsUpTo(S, n) == UNION {[1..k -> S] : k \in 0..n}

WalkInit ==
    /\ pc = "walk"
    /\ wusename \in BOOLEAN
    /\ wchildren \in
         {c \in SeqsUpTo(WalkNames \X SeqsUpTo(WalkValues, MaxVals), MaxPairs) :
             \A i, j \in DOMAIN c : i # j => c[i][1] # c[j][1]}
    /\ wresult = <<>>
    /\ nodes = EmptyDict
    /\ edges = EmptyDict
    /\ nextNode = 1
    /\ nextObj = 1
    /\ passes = 0
    /\ input = [nodes |-> EmptyDict, edges |-> EmptyDict]
    /\ last = NoPass
    /\ lineage = EmptyDict
    /\ prov = EmptyDict

\* list(walk(children, usename=usename))
WalkCall ==
    /\ pc = "walk"
    /\ wresult' = walk(wchildren, wusename)
    /\ pc' = "walked"
    /\ UNCHANGED <<wchildren, wusename>>
    /\ UNCHANGED graphVars

WalkNext == WalkCall

SpecWalk == WalkInit /\ [][WalkNext]_vars

----------------------------------------------------------------------------
(* Properties *)

Range(f) == {f[x] : x \in DOMAIN f}

IdsOf(N) == {N[r]._id : r \in DOMAIN N}

\* the input graph of the current call carries no non-empty iterables
InputIterableFree ==
    \A r \in DOMAIN input.nodes :
        DOMAIN NormalizeIterables(input.nodes[r].iterables).dict = {}

\* the graph has the nodes, identities, parameterization lists, edges and
\* payloads of graph G
SameGraph(G) ==
    /\ DOMAIN nodes = DOMAIN G.nodes
    /\ \A r \in DOMAIN nodes :
        /\ nodes[r]._id = G.nodes[r]._id
        /\ nodes[r].parameterization = G.nodes[r].parameterization
        /\ nodes[r].inputs = G.nodes[r].inputs
    /\ edges = G.edges

\* The pass cap of the model never stops a pass the code would make.
CapNeverBinds ==
    (pc = "loop" /\ inodes(nodes) # {}) => passes <= MaxIterNodes

\* C1: every call of _generate_expanded_graph on a finite acyclic graph with
\* finite value lists returns: from its start the loop reaches the pass that
\* finds no iterables and the call is done.
C1_Terminates == (pc = "start") ~> (pc = "done")

C1_Witness == pc = "done" /\ passes >= 2

\* C2: when _generate_expanded_graph has returned, no node of the graph,
\* original or copy at any depth, carries non-empty iterables.
C2_NoIterablesAtReturn ==
    pc = "done" => \A r \in DOMAIN nodes : ~HasIterables(nodes[r])

C2_Witness ==
    /\ pc = "done"
    /\ passes >= 2
    /\ \E r \in DOMAIN nodes : Len(lineage[r]) >= 2

\* C3: the node identities of the graph are pairwise distinct in the input
\* and after every completed duplication pass.
C3_UniqueIds ==
    \A r1, r2 \in DOMAIN nodes : r1 # r2 => nodes[r1]._id # nodes[r2]._id

\* C4: the graph is acyclic in the input, after every pass and in the result.
C4_Acyclic == IsAcyclic(DOMAIN nodes, DOMAIN edges)

C4_Witness ==
    /\ last.merged
    /\ passes >= 2
    /\ \E e \in DOMAIN edges :
        e[1] \in DOMAIN last.nodes /\ e[2] \notin DOMAIN last.nodes
    /\ \E e \in DOMAIN edges :
        e[1] \notin DOMAIN last.nodes /\ e[2] \notin DOMAIN last.nodes

\* C5: on a graph in which no node carries non-empty iterables the call makes
\* no pass (_merge_graphs is never invoked) and the graph keeps its nodes,
\* identities, parameterization lists, edges and payloads, up to the return.
C5_NoOp == InputIterableFree => (passes = 0 /\ SameGraph(input))

\* the call returned on a graph that an earlier call had expanded
C5_Witness ==
    /\ pc = "done"
    /\ InputIterableFree
    /\ DOMAIN edges # {}
    /\ \E r \in DOMAIN nodes : nodes[r].parameterization # <<>>

----------------------------------------------------------------------------
(* The latest merge: graph before (last.nodes, last.edges), subgraph        *)
(* (last.sub), copies (last.copy) and graph after (nodes, edges).  Nothing  *)
(* changes the graph between two merges.                                    *)

\* number of assignments in the cartesian product of the items' value lists
RECURSIVE ProductLen(_)
ProductLen(items) ==
    IF items = <<>> THEN 1
    ELSE Len(Head(items)[2]) * ProductLen(Tail(items))

LastSubEdges == SubgraphEdges(DOMAIN last.edges, last.sub)
LastKept == (DOMAIN last.nodes) \ last.sub
CopyNodes(i) == {last.copy[i][n] : n \in last.sub}
LastCopies == UNION {CopyNodes(i) : i \in DOMAIN last.copy}

\* the identity of subgraph node n when the subgraph is copied
TaggedId(n) ==
    IF n = last.sel THEN last.nodes[n]._id \o <<"I">> ELSE last.nodes[n]._id

\* C6: after a merge driven by iterables with N assignments the subgraph's
\* nodes are gone and the graph holds exactly N copies of the subgraph: the
\* kept nodes plus, per copy, one new node for every subgraph node (the
\* subgraph node's identity with the copy's index), with an edge between two
\* nodes of a copy exactly where the subgraph has one.
C6_ExactCopies ==
    last.merged =>
        /\ Len(last.copy) = ProductLen(last.items)
        /\ last.sub \cap DOMAIN nodes = {}
        /\ DOMAIN nodes = LastKept \cup LastCopies
        /\ LastCopies \cap DOMAIN last.nodes = {}
        /\ \A i \in DOMAIN last.copy :
            /\ Cardinality(CopyNodes(i)) = Cardinality(last.sub)
            /\ \A j \in DOMAIN last.copy :
                i # j => CopyNodes(i) \cap CopyNodes(j) = {}
            /\ \A n \in last.sub :
                nodes[last.copy[i][n]]._id = TaggedId(n) \o Str(i - 1)
            /\ \A a, b \in last.sub :
                (<<last.copy[i][a], last.copy[i][b]>> \in DOMAIN edges)
                    <=> (<<a, b>> \in LastSubEdges)

\* a chain of three nodes, iterables with two values on its head: two chains
C6_Witness ==
    /\ last.merged
    /\ Cardinality(last.sub) = 3
    /\ Cardinality(LastSubEdges) = 2
    /\ Len(last.copy) = 2
    /\ \E a, b, c \in last.sub :
        /\ a = last.sel
        /\ {<<a, b>>, <<b, c>>} = LastSubEdges

C8_ExternalEdges ==
    last.merged =>
        \A i \in DOMAIN last.copy : \A n \in last.sub :
            /\ \A u \in LastKept :
                <<u, n>> \in DOMAIN last.edges =>
                    /\ <<u, last.copy[i][n]>> \in DOMAIN edges
                    /\ edges[<<u, last.copy[i][n]>>].val
                           = last.edges[<<u, n>>].val
            /\ \A u \in (DOMAIN nodes) \ CopyNodes(i) :
                <<u, last.copy[i][n]>> \in DOMAIN edges =>
                    /\ u \in LastKept
                    /\ <<u, n>> \in DOMAIN last.edges

\* C9: every edge that a merge creates, inside a copy or re-attached from
\* outside, has a payload equal in value to the payload of the edge it
\* duplicates, in a list object that is neither the source edge's nor that of
\* the corresponding edge of another copy.
C9_PayloadFresh ==
    last.merged =>
        \A i \in DOMAIN last.copy : \A e \in DOMAIN last.edges :
            (e[2] \in last.sub /\ e[1] \in last.sub \cup LastKept) =>
                LET from(k) == IF e[1] \in last.sub THEN last.copy[k][e[1]]
                               ELSE e[1]
                    dup(k) == <<from(k), last.copy[k][e[2]]>>
                IN dup(i) \in DOMAIN edges =>
                    /\ edges[dup(i)].val = last.edges[e].val
                    /\ edges[dup(i)].ref # last.edges[e].ref
                    /\ \A j \in DOMAIN last.copy :
                        (j # i /\ dup(j) \in DOMAIN edges) =>
                            edges[dup(j)].ref # edges[dup(i)].ref

----------------------------------------------------------------------------
(* walk *)

\* product of the lengths of the value lists of the pairs after pair k
RECURSIVE Weight(_, _)
Weight(children, k) ==
    IF k >= Len(children) THEN 1
    ELSE Len(children[k + 1][2]) * Weight(children, k + 1)

\* the t-th combination in nested-loop order: pair k is at the value whose
\* index is digit k of t - 1 written with the list lengths as radices
Combination(children, t) ==
    [name \in {children[k][1] : k \in DOMAIN children} |->
        LET k == CHOOSE x \in DOMAIN children : children[x][1] = name
            vals == children[k][2]
        IN vals[(((t - 1) \div Weight(children, k)) % Len(vals)) + 1]]

\* C10: walk over the pairs yields the combinations of the cartesian product
\* of the value lists, each once, as mappings name -> value in nested-loop
\* order, the first pair slowest; over no pairs it yields the empty mapping,
\* once.
C10_WalkProduct ==
    (pc = "walked" /\ wusename) =>
        /\ Len(wresult) = Weight(wchildren, 0)
        /\ \A t \in DOMAIN wresult : wresult[t] = Combination(wchildren, t)
        /\ wchildren = <<>> => wresult = <<EmptyDict>>

C10_Witness ==
    /\ pc = "walked"
    /\ wusename
    /\ Len(wchildren) = 2
    /\ Len(wchildren[1][2]) = 2
    /\ Len(wchildren[2][2]) = 2
    /\ wchildren[1][2][1] # wchildren[1][2][2]
    /\ wchildren[2][2][1] # wchildren[2][2][2]
    /\ Len(wresult) = 4

----------------------------------------------------------------------------
(* Path segments *)

\* the items of the latest merge's iterables, sorted by name
LastSortedItems ==
    LET d == ToDict(last.items, EmptyDict)
        keys == SortedKeys(d)
    IN [i \in DOMAIN keys |-> <<keys[i], d[keys[i]]>>]

\* s ends in t
EndsIn(s, t) ==
    /\ Len(s) >= Len(t)
    /\ SubSeq(s, Len(s) - Len(t) + 1, Len(s)) = t

\* C11: a merge yields one copy per assignment; the identities of copy i end
\* in the index i (from 0) and its nodes carry as first path segment the one
\* built from the i-th assignment in name-major cartesian order (the names
\* sorted, the first name slowest): _<name>_<value> for the assignment's
\* pairs sorted by name.  For {a: [1, 2], b: [3, 4]}: _a_1_b_3, _a_1_b_4,
\* _a_2_b_3, _a_2_b_4.
C11_Segments ==
    last.merged =>
        /\ Len(last.copy) = Weight(LastSortedItems, 0)
        /\ \A i \in DOMAIN last.copy : \A n \in last.sub :
            /\ EndsIn(nodes[last.copy[i][n]]._id, Str(i - 1))
            /\ nodes[last.copy[i][n]].parameterization # <<>>
            /\ Head(nodes[last.copy[i][n]].parameterization)
                   = ParamStr(Combination(LastSortedItems, i))

----------------------------------------------------------------------------
(* Graphs with a cycle *)

InputCyclic == ~IsAcyclic(DOMAIN input.nodes, DOMAIN input.edges)

\* C12: on an input graph with a cycle the call never makes a pass and never
\* returns; up to and at its failure the graph has the nodes, edges, payloads
\* and identities of the input.
C12_CycleFails ==
    InputCyclic =>
        /\ pc \in {"start", "loop", "failed"}
        /\ passes = 0
        /\ ~last.merged
        /\ DOMAIN nodes = DOMAIN input.nodes
        /\ edges = input.edges
        /\ \A r \in DOMAIN nodes : nodes[r]._id = input.nodes[r]._id

\* the call failed on a two-node cycle with iterables on one of the nodes
C12_Witness ==
    /\ pc = "failed"
    /\ InputCyclic
    /\ {<<1, 2>>, <<2, 1>>} = DOMAIN edges
    /\ inodes(nodes) # {}

----------------------------------------------------------------------------
(* Progress of the loop *)

\* the nodes of the call's input that carry non-empty iterables
InputInodes ==
    {r \in DOMAIN input.nodes :
        DOMAIN NormalizeIterables(input.nodes[r].iterables).dict # {}}

\* C13: every pass takes exactly one node out of the nodes that carry
\* non-empty iterables and adds none: the selected node carried iterables and
\* none of its proper descendants did, no copy carries any, the other
\* iterable-carrying nodes are the same as before; so the passes made and the
\* iterable-carrying nodes left add up to the iterable-carrying nodes of the
\* input, and at the return _merge_graphs has been called once per such node.
C13_OneLessPerPass ==
    /\ pc \in {"loop", "done"} =>
        passes + Cardinality(inodes(nodes)) = Cardinality(InputInodes)
    /\ pc = "done" => passes = Cardinality(InputInodes)
    /\ last.merged =>
        /\ last.sel \in inodes(last.nodes)
        /\ (dfs_preorder(DOMAIN last.edges, last.sel) \ {last.sel})
               \cap inodes(last.nodes) = {}
        /\ LastCopies \cap inodes(nodes) = {}
        /\ inodes(nodes) = inodes(last.nodes) \ {last.sel}

\* a returned call on an input with an iterable-carrying node downstream of
\* another: two passes, the second copying the copies of the first
C13_Witness ==
    /\ pc = "done"
    /\ passes = 2
    /\ \E a, b \in InputInodes : <<a, b>> \in DOMAIN input.edges
    /\ Len(last.copy) >= 2
    /\ Cardinality(last.sub) >= 3

----------------------------------------------------------------------------
(* The fully expanded graph against the input *)

\* the iterable-carrying input nodes from which input node n is reachable,
\* n included
IterAncestors(n) ==
    {m \in InputInodes : n \in dfs_preorder(DOMAIN input.edges, m)}

\* the segments of node r, first to last, with the input node each is for:
\* the latest pass prepends
SegmentsOf(r) ==
    LET by == prov[r].by
    IN [i \in DOMAIN by |->
           [node |-> by[Len(by) + 1 - i].node,
            seg |-> ParamStr(by[Len(by) + 1 - i].params)]]

\* C14: in the returned graph the parameterization of every node is one
\* segment for each iterable-carrying input node that is the node's origin or
\* an ancestor of it, each the segment of the assignment the node was copied
\* for, a segment of an upstream node before those of the nodes downstream of
\* it, followed by the parameterization the origin had in the input.
C14_Parameterization ==
    pc = "done" =>
        \A r \in DOMAIN nodes :
            LET segs == SegmentsOf(r)
                orig == input.nodes[prov[r].of].parameterization
            IN /\ nodes[r].parameterization
                     = [i \in DOMAIN segs |-> segs[i].seg] \o orig
               /\ {segs[i].node : i \in DOMAIN segs} = IterAncestors(prov[r].of)
               /\ Len(segs) = Cardinality(IterAncestors(prov[r].of))
               /\ \A i, j \in DOMAIN segs :
                    i < j => segs[i].node \notin
                                 dfs_preorder(DOMAIN input.edges, segs[j].node)

\* product of the numbers of assignments of the input nodes in S
RECURSIVE Assignments(_)
Assignments(S) ==
    IF S = {} THEN 1
    ELSE LET m == CHOOSE x \in S : TRUE
             d == NormalizeIterables(input.nodes[m].iterables).dict
             items == [i \in DOMAIN SortedKeys(d) |->
                          <<SortedKeys(d)[i], d[SortedKeys(d)[i]]>>]
         IN ProductLen(items) * Assignments(S \ {m})

\* the nodes of the graph that are input node n or copies of it
CopiesOf(n) == {r \in DOMAIN nodes : prov[r].of = n}

\* C15: in the returned graph every input node n is there as many times as
\* the product, over the iterable-carrying input nodes from which n is
\* reachable (n included), of their numbers of assignments; once when there
\* is no such node.
C15_CopyCount ==
    pc = "done" =>
        \A n \in DOMAIN input.nodes :
            Cardinality(CopiesOf(n)) = Assignments(IterAncestors(n))

----------------------------------------------------------------------------
(* set_input *)

\* C16: after a merge, in copy i the copy of the driving node (the selected
\* node) has the inputs it had with every pair of the i-th assignment set, so
\* it holds exactly that assignment's values; every other node of the copy
\* has the inputs of the node it copies, and the nodes outside the subgraph
\* have their inputs unchanged.
C16_SetInputFrame ==
    last.merged =>
        /\ \A i \in DOMAIN last.copy : \A n \in last.sub :
            LET now == nodes[last.copy[i][n]].inputs
                was == last.nodes[n].inputs
            IN IF n = last.sel
               THEN /\ DOMAIN now = (DOMAIN was) \cup DOMAIN last.assigns[i]
                    /\ \A k \in DOMAIN last.assigns[i] :
                        now[k] = last.assigns[i][k]
                    /\ \A k \in (DOMAIN was) \ DOMAIN last.assigns[i] :
                        now[k] = was[k]
               ELSE now = was
        /\ \A r \in LastKept : nodes[r].inputs = last.nodes[r].inputs

----------------------------------------------------------------------------
(* Empty value lists *)

LastHasEmptyList == \E i \in DOMAIN last.items : last.items[i][2] = <<>>

\* C17: when one of the selected node's iterables has an empty value list
\* the merge has zero assignments: it removes the selected node and all its
\* descendants, puts no copy in, leaves the other nodes and the edges
\* between them as they were, and the loop goes on without an error.
C17_EmptyListRemovesClosure ==
    (last.merged /\ LastHasEmptyList) =>
        /\ last.assigns = <<>>
        /\ last.copy = <<>>
        /\ last.sub = dfs_preorder(DOMAIN last.edges, last.sel)
        /\ DOMAIN nodes = (DOMAIN last.nodes) \ last.sub
        /\ \A r \in DOMAIN nodes : nodes[r] = last.nodes[r]
        /\ DOMAIN edges =
               {e \in DOMAIN last.edges : e[1] \in LastKept /\ e[2] \in LastKept}
        /\ \A e \in DOMAIN edges : edges[e] = last.edges[e]
        /\ pc \in {"start", "loop", "done"}

\* the returned graph lacks a node and its descendant, removed for iterables
\* of two names of which the second has no values
C17_Witness ==
    /\ pc = "done"
    /\ last.merged
    /\ Len(last.items) = 2
    /\ LastHasEmptyList
    /\ \E i \in DOMAIN last.items : last.items[i][2] # <<>>
    /\ Cardinality(last.sub) = 2
    /\ DOMAIN nodes = {}

====
